---- MODULE Spec2Model ----
(***************************************************************************)
(* Model of the MCP/Gemini chat client (src/client.py): the schema         *)
(* translator mcp_tool_to_gemini_function and the session driven by        *)
(* main(): transport and session acquisition, tool enumeration, the        *)
(* interactive loop with its per-turn model calls and tool round trip,     *)
(* and the release of the session resources.                               *)
(***************************************************************************)
EXTENDS Integers, Sequences, FiniteSets, TLC

(* ------------------------------ bounds --------------------------------- *)
\* longest required-list of a tool descriptor handed to the translator
MaxRequired == 2
\* most parts in one model response
MaxParts == 2
\* most content items in one tool result
MaxContent == 1

VARIABLES
    pc,                  \* position of main() (the outstanding await, or a phase)
    exitCause,           \* why the interactive session was left ("none" while running)
    events,              \* acquisitions, releases and process-level reports, in order
    mcp_session,         \* client.py:88  "None" or "session"
    available_mcp_tools, \* client.py:90  tool descriptors returned by list_tools
    gemini_tools_list,   \* client.py:89  [] or [GeminiTool(function_declarations=...)]
    listToolsCalls,      \* number of list_tools requests issued
    enumFailed,          \* list_tools raised
    user_query,          \* client.py:144 the line read, as a sequence of characters
    response,            \* client.py:153/199 the local 'response' (unbound until first assigned)
    tool_name,           \* client.py:164
    tool_args,           \* client.py:165
    tool_call_result,    \* client.py:173
    result_content_str,  \* client.py:176
    toolOutcome,         \* this turn's call_tool: "none", "pending", "returned", "raised"
    modelCalls,          \* this turn's send_message_async calls, in order
    toolCalls,           \* this turn's call_tool requests, in order
    output,              \* this turn's user-facing prints, in order
    diagnostics,         \* this turn's prints of the error handler about prompt feedback
    fresh,               \* 'response' was assigned during the current turn
    unanswered,          \* names the model's last turn asked to call and no function response answered
    mcp_tool,            \* translator input (translator specification)
    translated,          \* translator output: <<>> before the call, <<declaration>> after
    text,                \* server.py:12/35 the 'text' argument, as a sequence of characters
    analysis_result,     \* server.py:24 <<>> before analyze_text ran, <<result>> after
    sentence_count       \* server.py:47 <<>> before count_sentences ran, <<count>> after

mainVars == <<pc, exitCause, events, mcp_session, available_mcp_tools,
              gemini_tools_list, listToolsCalls, enumFailed, user_query,
              response, tool_name, tool_args, tool_call_result,
              result_content_str, toolOutcome, modelCalls, toolCalls, output,
              diagnostics, fresh, unanswered>>
transVars == <<mcp_tool, translated>>
serverVars == <<text, analysis_result, sentence_count>>
vars == <<pc, exitCause, events, mcp_session, available_mcp_tools,
          gemini_tools_list, listToolsCalls, enumFailed, user_query,
          response, tool_name, tool_args, tool_call_result,
          result_content_str, toolOutcome, modelCalls, toolCalls, output,
          diagnostics, fresh, unanswered,
          mcp_tool, translated, text, analysis_result, sentence_count>>

(* ------------------------- tool descriptors ---------------------------- *)
\* An optional key of a Python dict is a presence flag plus a value; an
\* absent key carries a fixed filler value that no definition reads.
ParamNames == {"text", "limit"}
KnownTypes == {"number", "integer", "boolean", "string", "array", "object"}
SchemaTypes == KnownTypes \cup {"null"}

ParamSchemas ==
    { [hasType |-> ty # "", type |-> ty, hasDescription |-> d # "", description |-> d] :
        ty \in SchemaTypes \cup {""}, d \in {"The text", ""} }

PropertyMaps == UNION { [S -> ParamSchemas] : S \in SUBSET ParamNames }

SeqsUpTo(S, n) == UNION { [1..k -> S] : k \in 0..n }

RequiredLists == SeqsUpTo(ParamNames, MaxRequired)

NoProperties == [p \in {} |-> [hasType |-> FALSE, type |-> "", hasDescription |-> FALSE, description |-> ""]]

InputSchemas ==
    { [hasProperties |-> TRUE, properties |-> pm, hasRequired |-> TRUE, required |-> rq] :
        pm \in PropertyMaps, rq \in RequiredLists }
    \cup { [hasProperties |-> TRUE, properties |-> pm, hasRequired |-> FALSE, required |-> <<>>] :
        pm \in PropertyMaps }
    \cup { [hasProperties |-> FALSE, properties |-> NoProperties, hasRequired |-> TRUE, required |-> rq] :
        rq \in RequiredLists }
    \cup { [hasProperties |-> FALSE, properties |-> NoProperties, hasRequired |-> FALSE, required |-> <<>>] }

NoSchema == [hasProperties |-> FALSE, properties |-> NoProperties, hasRequired |-> FALSE, required |-> <<>>]

\* mcp_types.Tool: name, optional description, optional inputSchema
Descriptors ==
    { [name |-> "count_sentences", hasDescription |-> hd,
       description |-> IF hd THEN "Counts the sentences." ELSE "",
       hasSchema |-> TRUE, inputSchema |-> s] : hd \in BOOLEAN, s \in InputSchemas }
    \cup { [name |-> "count_sentences", hasDescription |-> hd,
            description |-> IF hd THEN "Counts the sentences." ELSE "",
            hasSchema |-> FALSE, inputSchema |-> NoSchema] : hd \in BOOLEAN }

(* --------------------- mcp_tool_to_gemini_function --------------------- *)
\* the chain with the 'integer' branch yielding the 'number' result
ParamType_IntegerAsNumber(schema) ==
    LET schema_type == IF schema.hasType THEN schema.type ELSE "None"
    IN  IF schema_type = "number" THEN "NUMBER"
        ELSE IF schema_type = "integer" THEN "NUMBER"
        ELSE IF schema_type = "boolean" THEN "BOOLEAN"
        ELSE IF schema_type = "string" THEN "STRING"
        ELSE IF schema_type = "array" THEN "ARRAY"
        ELSE IF schema_type = "object" THEN "OBJECT"
        ELSE "STRING"

\* client.py:39-53, the if/elif chain over schema.get('type')
ParamType(schema) ==
    LET schema_type == IF schema.hasType THEN schema.type ELSE "None"
    IN  IF schema_type = "number" THEN "NUMBER"
        ELSE IF schema_type = "integer" THEN "INTEGER"
        ELSE IF schema_type = "boolean" THEN "BOOLEAN"
        ELSE IF schema_type = "string" THEN "STRING"
        ELSE IF schema_type = "array" THEN "ARRAY"
        ELSE IF schema_type = "object" THEN "OBJECT"
        ELSE "STRING"

\* client.py:55-58
PropDefinition(schema) ==
    [type |-> ParamType(schema),
     description |-> IF schema.hasDescription THEN schema.description ELSE ""]

\* client.py:37  mcp_tool.inputSchema and 'properties' in mcp_tool.inputSchema
\* (an absent schema is None; a schema without the key fails the membership test)
SchemaHasProperties(tool) ==
    /\ tool.hasSchema
    /\ tool.inputSchema.hasProperties

\* client.py:33-70
mcp_tool_to_gemini_function(tool) ==
    LET inSchema == SchemaHasProperties(tool)
        properties == IF inSchema
                        THEN [p \in DOMAIN tool.inputSchema.properties |->
                                 PropDefinition(tool.inputSchema.properties[p])]
                        ELSE [p \in {} |-> [type |-> "", description |-> ""]]
        required == IF inSchema
                      THEN (IF tool.inputSchema.hasRequired
                              THEN tool.inputSchema.required ELSE <<>>)
                      ELSE <<>>
    IN  [name |-> tool.name,
         description |-> IF tool.hasDescription /\ tool.description # ""
                           THEN tool.description ELSE "",
         parameters |-> [type |-> "OBJECT", properties |-> properties,
                         required |-> required]]

(* --------------------------- the Tool Host ----------------------------- *)
\* FastMCP derives each tool's descriptor from the function signature
\* (server.py:11-12 and 34-35): one string parameter 'text', required.
TextParam == [hasType |-> TRUE, type |-> "string", hasDescription |-> FALSE, description |-> ""]

HostTool(n, d) ==
    [name |-> n, hasDescription |-> TRUE, description |-> d,
     hasSchema |-> TRUE,
     inputSchema |-> [hasProperties |-> TRUE,
                      properties |-> [p \in {"text"} |-> TextParam],
                      hasRequired |-> TRUE, required |-> <<"text">>]]

analyze_text == HostTool("analyze_text", "Analyzes the provided text.")
count_sentences == HostTool("count_sentences", "Counts the number of sentences.")

\* what list_tools can return: a host with no tool, one tool, or both
ToolLists == { <<>>, <<count_sentences>>, <<analyze_text, count_sentences>> }

(* -------------------------- the model's replies ------------------------ *)
\* a part of a response: text, a function call, or neither (both falsy)
NoArgs == [text |-> ""]
CallArgs == { [text |-> "Hi. Bye!"] }
CallNames == { "count_sentences", "no_such_tool" }

TextPart(t) == [text |-> t, has_call |-> FALSE, name |-> "", args |-> NoArgs]
CallPart(n, a) == [text |-> "", has_call |-> TRUE, name |-> n, args |-> a]
EmptyPart == TextPart("")

Parts == { TextPart("There are 2 sentences."), EmptyPart }
         \cup { CallPart(n, a) : n \in CallNames, a \in CallArgs }

Responses == SeqsUpTo(Parts, MaxParts)

\* response.prompt_feedback: falsy when the API attached none
Feedbacks == { "", "block_reason: SAFETY" }

Unbound == [bound |-> FALSE, parts |-> <<>>, prompt_feedback |-> ""]

\* the names of the function calls a response asks for
CallsIn(parts) == { parts[i].name : i \in { k \in DOMAIN parts : parts[k].has_call } }

(* --------------------------- tool results ------------------------------ *)
\* a content item: TextContent with its text, or another content type
PlainText == "2 sentences found"
JsonText == "{\"word_count\": 3, \"char_count\": 6}"
JsonPretty == "{\n  \"word_count\": 3,\n  \"char_count\": 6\n}"

ContentItems == { [type |-> "text", text |-> PlainText],
                  [type |-> "text", text |-> JsonText],
                  [type |-> "image", text |-> ""] }

ToolResults == { [isError |-> e, content |-> c] :
                    e \in BOOLEAN, c \in SeqsUpTo(ContentItems, MaxContent) }

NoResult == [isError |-> FALSE, content |-> <<>>]

\* client.py:183-185  json.loads succeeds on JSON text only; json.dumps(indent=2)
JsonLoads(t) == t = JsonText
JsonDumpsIndent2(t) == IF t = JsonText THEN JsonPretty ELSE t

NoParsableContent == "Error: Tool executed but no parsable content returned."
ServerFailed == "Tool execution failed on server."

\* the serialization without the 'elif tool_failed' branch
SerializeResult_NoSentinel(result) ==
    IF Len(result.content) > 0
      THEN LET first_content == result.content[1]
           IN  IF first_content.type = "text"
                 THEN (IF JsonLoads(first_content.text)
                         THEN JsonDumpsIndent2(first_content.text)
                         ELSE first_content.text)
                 ELSE NoParsableContent
      ELSE NoParsableContent

\* client.py:176-186
SerializeResult(result) ==
    IF Len(result.content) > 0
      THEN LET first_content == result.content[1]
           IN  IF first_content.type = "text"
                 THEN (IF JsonLoads(first_content.text)
                         THEN JsonDumpsIndent2(first_content.text)
                         ELSE first_content.text)
                 ELSE NoParsableContent
      ELSE IF result.isError THEN ServerFailed ELSE NoParsableContent

(* ------------------------------ printing ------------------------------- *)
LLMText(t) == [kind |-> "text", msg |-> t]                          \* client.py:205, 218
NoFinalText == [kind |-> "notice",
                msg |-> "Gemini Chat did not provide a final text response after tool call."]  \* :207
ToolApology == [kind |-> "apology",
                msg |-> "Sorry, I encountered an error trying to use the tool."]   \* :211
NoSessionApology == [kind |-> "apology", msg |-> "Sorry, I cannot currently use tools."]  \* :214
EmptyResponse == [kind |-> "notice",
                  msg |-> "Received unexpected or empty response part from Gemini Chat."]  \* :220
ModelApology == [kind |-> "apology",
                 msg |-> "Sorry, an error occurred while processing your request with the language model."]  \* :232

(* ------------------------------ input ---------------------------------- *)
\* str.lower on the characters that occur in the modelled input lines
LowerChar(c) ==
    IF c = "Q" THEN "q" ELSE IF c = "U" THEN "u" ELSE IF c = "I" THEN "i"
    ELSE IF c = "T" THEN "t" ELSE IF c = "H" THEN "h" ELSE c

Lower(s) == [i \in DOMAIN s |-> LowerChar(s[i])]

Lines == { <<>>, <<"q","u","i","t">>, <<"Q","U","I","T">>, <<"Q","u","i","t">>,
           <<"H","i">> }

(* --------------------------- initial state ----------------------------- *)
InitMain ==
    /\ pc = "Connect"
    /\ exitCause = "none"
    /\ events = <<>>
    /\ mcp_session = "None"
    /\ available_mcp_tools = <<>>
    /\ gemini_tools_list = <<>>
    /\ listToolsCalls = 0
    /\ enumFailed = FALSE
    /\ user_query = <<>>
    /\ response = Unbound
    /\ tool_name = ""
    /\ tool_args = NoArgs
    /\ tool_call_result = NoResult
    /\ result_content_str = ""
    /\ toolOutcome = "none"
    /\ modelCalls = <<>>
    /\ toolCalls = <<>>
    /\ output = <<>>
    /\ diagnostics = <<>>
    /\ fresh = FALSE
    /\ unanswered = {}

\* the Tool Host's functions before any invocation
InitServerIdle ==
    /\ text = <<>>
    /\ analysis_result = <<>>
    /\ sentence_count = <<>>

Init ==
    /\ InitMain
    /\ mcp_tool = count_sentences
    /\ translated = <<>>
    /\ InitServerIdle

turnVars == <<user_query, response, tool_name, tool_args, tool_call_result,
              result_content_str, toolOutcome, modelCalls, toolCalls, output,
              diagnostics, fresh, unanswered>>
toolVars == <<available_mcp_tools, gemini_tools_list, listToolsCalls, enumFailed>>

(* ------------------------------ startup -------------------------------- *)
\* client.py:94  stdio_client(...).__aenter__ establishes the transport
ConnectOk ==
    /\ pc = "Connect"
    /\ events' = Append(events, "acquire_transport")
    /\ pc' = "OpenSession"
    /\ UNCHANGED <<exitCause, mcp_session, toolVars, turnVars, transVars, serverVars>>

\* client.py:94, 237-242  the server process cannot be started: nothing was
\* acquired, the exception reaches the handlers of the outer try
ConnectFails ==
    /\ pc = "Connect"
    /\ exitCause' = "connect_error"
    /\ pc' = "Handler"
    /\ UNCHANGED <<events, mcp_session, toolVars, turnVars, transVars, serverVars>>

\* client.py:98-99  ClientSession(...).__aenter__; mcp_session = session
OpenSession ==
    /\ pc = "OpenSession"
    /\ events' = Append(events, "acquire_session")
    /\ mcp_session' = "session"
    /\ pc' = "Initialize"
    /\ UNCHANGED <<exitCause, toolVars, turnVars, transVars, serverVars>>

\* client.py:101  await session.initialize()
InitializeOk ==
    /\ pc = "Initialize"
    /\ pc' = "ListTools"
    /\ UNCHANGED <<exitCause, events, mcp_session, toolVars, turnVars, transVars, serverVars>>

\* client.py:101  initialize raises: both context managers unwind
InitializeFails ==
    /\ pc = "Initialize"
    /\ exitCause' = "init_error"
    /\ pc' = "ReleaseSession"
    /\ UNCHANGED <<events, mcp_session, toolVars, turnVars, transVars, serverVars>>

\* the tools argument passed as the list itself, empty or not
ToolsArg_ListAsIs(l) == [present |-> TRUE, tools |-> l]

\* client.py:155, 201  tools=gemini_tools_list if gemini_tools_list else None
ToolsArg(l) ==
    IF l # <<>> THEN [present |-> TRUE, tools |-> l]
                ELSE [present |-> FALSE, tools |-> <<>>]

\* client.py:124-130  the comprehension over available_mcp_tools and the
\* GeminiTool wrapper, built only when there is at least one declaration
ConvertTools(tools) ==
    LET gemini_functions == [i \in DOMAIN tools |-> mcp_tool_to_gemini_function(tools[i])]
    IN  IF gemini_functions # <<>>
          THEN << [function_declarations |-> gemini_functions] >>
          ELSE <<>>

\* client.py:106-140  list_tools returns; conversion; start_chat; loop entry
ListToolsOk ==
    /\ pc = "ListTools"
    /\ \E tools \in ToolLists :
         /\ available_mcp_tools' = tools
         /\ gemini_tools_list' = ConvertTools(tools)
    /\ listToolsCalls' = listToolsCalls + 1
    /\ pc' = "AwaitingInput"
    /\ UNCHANGED <<exitCause, events, mcp_session, enumFailed, turnVars, transVars, serverVars>>

\* list_tools raising without the try around it: the session unwinds
ListToolsFails_Aborts ==
    /\ pc = "ListTools"
    /\ enumFailed' = TRUE
    /\ exitCause' = "enum_error"
    /\ listToolsCalls' = listToolsCalls + 1
    /\ pc' = "ReleaseSession"
    /\ UNCHANGED <<events, mcp_session, available_mcp_tools, gemini_tools_list,
                   turnVars, transVars, serverVars>>

\* client.py:120-140  list_tools raises: the error is printed, the tool
\* list keeps its initial value [], conversion and loop entry follow
ListToolsFails ==
    /\ pc = "ListTools"
    /\ enumFailed' = TRUE
    /\ events' = Append(events, "error_listing_tools")
    /\ gemini_tools_list' = ConvertTools(available_mcp_tools)
    /\ listToolsCalls' = listToolsCalls + 1
    /\ pc' = "AwaitingInput"
    /\ UNCHANGED <<exitCause, mcp_session, available_mcp_tools, turnVars, transVars, serverVars>>

(* ------------------------- the interactive loop ------------------------ *)
\* one send_message_async call as the chat session sees it
UserMessage(q, l) ==
    [kind |-> "user_text", text |-> q, name |-> "", content |-> "",
     tools |-> ToolsArg(l), result |-> "pending"]

FunctionResponse(n, c, l) ==
    [kind |-> "function_response", text |-> <<>>, name |-> n, content |-> c,
     tools |-> ToolsArg(l), result |-> "pending"]

Settle(calls, r) == [calls EXCEPT ![Len(calls)].result = r]

\* client.py:164-176  tool_name, tool_args, tool_call_result and
\* result_content_str are written before they are read in every turn that
\* uses them; the variables hold this turn's values, and what an earlier
\* turn left in the locals is not kept once a new line has been read
ClearTurnLocals ==
    /\ tool_name' = ""
    /\ tool_args' = NoArgs
    /\ tool_call_result' = NoResult
    /\ result_content_str' = ""

\* the quit command compared without lower()
ReadQuery_CaseSensitive ==
    /\ pc = "AwaitingInput"
    /\ \E line \in Lines :
         /\ line # <<"q","u","i","t">>
         /\ line # <<>>
         /\ user_query' = line
         /\ modelCalls' = << UserMessage(line, gemini_tools_list) >>
    /\ toolCalls' = <<>>
    /\ output' = <<>>
    /\ diagnostics' = <<>>
    /\ fresh' = FALSE
    /\ UNCHANGED unanswered
    /\ ClearTurnLocals
    /\ toolOutcome' = "none"
    /\ pc' = "ModelCall1"
    /\ UNCHANGED <<exitCause, events, mcp_session, toolVars, response, transVars, serverVars>>

\* client.py:144-156  a line that is neither the quit command nor empty:
\* the turn starts and the first send_message_async is awaited
ReadQuery ==
    /\ pc = "AwaitingInput"
    /\ \E line \in Lines :
         /\ Lower(line) # <<"q","u","i","t">>
         /\ line # <<>>
         /\ user_query' = line
         /\ modelCalls' = << UserMessage(line, gemini_tools_list) >>
    /\ toolCalls' = <<>>
    /\ output' = <<>>
    /\ diagnostics' = <<>>
    /\ fresh' = FALSE
    /\ UNCHANGED unanswered
    /\ ClearTurnLocals
    /\ toolOutcome' = "none"
    /\ pc' = "ModelCall1"
    /\ UNCHANGED <<exitCause, events, mcp_session, toolVars, response, transVars, serverVars>>

\* client.py:144-148  the empty line: continue
ReadEmpty ==
    /\ pc = "AwaitingInput"
    /\ user_query' = <<>>
    /\ pc' = "AwaitingInput"
    /\ modelCalls' = <<>>
    /\ toolCalls' = <<>>
    /\ output' = <<>>
    /\ diagnostics' = <<>>
    /\ fresh' = FALSE
    /\ UNCHANGED unanswered
    /\ ClearTurnLocals
    /\ toolOutcome' = "none"
    /\ UNCHANGED <<exitCause, events, mcp_session, toolVars, response, transVars, serverVars>>

\* quit leaving the process without unwinding the context managers
ReadQuit_NoRelease ==
    /\ pc = "AwaitingInput"
    /\ \E line \in Lines :
         /\ Lower(line) = <<"q","u","i","t">>
         /\ user_query' = line
    /\ modelCalls' = <<>>
    /\ toolCalls' = <<>>
    /\ output' = <<>>
    /\ diagnostics' = <<>>
    /\ fresh' = FALSE
    /\ UNCHANGED unanswered
    /\ ClearTurnLocals
    /\ toolOutcome' = "none"
    /\ exitCause' = "quit"
    /\ pc' = "Finally"
    /\ UNCHANGED <<events, mcp_session, toolVars, response, transVars, serverVars>>

\* client.py:144-146  the quit command in any letter case: break
ReadQuit ==
    /\ pc = "AwaitingInput"
    /\ \E line \in Lines :
         /\ Lower(line) = <<"q","u","i","t">>
         /\ user_query' = line
    /\ modelCalls' = <<>>
    /\ toolCalls' = <<>>
    /\ output' = <<>>
    /\ diagnostics' = <<>>
    /\ fresh' = FALSE
    /\ UNCHANGED unanswered
    /\ ClearTurnLocals
    /\ toolOutcome' = "none"
    /\ exitCause' = "quit"
    /\ pc' = "ReleaseSession"
    /\ UNCHANGED <<events, mcp_session, toolVars, response, transVars, serverVars>>

\* client.py:144  input() raises (end of input): the call is outside the
\* turn's try, so the exception leaves the loop and both context managers
ReadFails ==
    /\ pc = "AwaitingInput"
    /\ exitCause' = "input_error"
    /\ pc' = "ReleaseSession"
    /\ UNCHANGED <<events, mcp_session, toolVars, turnVars, transVars, serverVars>>

\* client.py:226-230  the handler's look at the local 'response': an
\* unbound name raises inside the inner try and is reported there; a bound
\* response with truthy prompt_feedback has the feedback reported
FeedbackReport ==
    IF ~response.bound
      THEN [kind |-> "error_accessing_feedback", feedback |-> "", fresh |-> fresh]
    ELSE IF response.prompt_feedback # ""
      THEN [kind |-> "prompt_feedback", feedback |-> response.prompt_feedback, fresh |-> fresh]
      ELSE [kind |-> "none", feedback |-> "", fresh |-> fresh]

\* the first model call raising without the turn's try: the loop is left
ModelCall1Raises_Propagates ==
    /\ pc = "ModelCall1"
    /\ modelCalls' = Settle(modelCalls, "raised")
    /\ exitCause' = "turn_error"
    /\ pc' = "ReleaseSession"
    /\ UNCHANGED <<diagnostics, fresh, unanswered>>
    /\ UNCHANGED <<events, mcp_session, toolVars, user_query, response,
                   tool_name, tool_args, tool_call_result, result_content_str,
                   toolOutcome, toolCalls, output, transVars, serverVars>>

\* client.py:153-156, 222-232  the first model call raises: the turn's
\* handler reports and the loop goes on; 'response' keeps what it held
ModelCall1Raises ==
    /\ pc = "ModelCall1"
    /\ modelCalls' = Settle(modelCalls, "raised")
    /\ output' = Append(output, ModelApology)
    /\ pc' = "AwaitingInput"
    /\ diagnostics' = Append(diagnostics, FeedbackReport)
    /\ UNCHANGED <<fresh, unanswered>>
    /\ UNCHANGED <<exitCause, events, mcp_session, toolVars, user_query, response,
                   tool_name, tool_args, tool_call_result, result_content_str,
                   toolOutcome, toolCalls, transVars, serverVars>>

\* client.py:153-165, 222-232  the first model call returns a response
\* without candidates and reading it raises (response.parts, function_call.args):
\* 'response' is assigned, then the turn's handler reports and the loop goes on
ModelCall1Unusable ==
    /\ pc = "ModelCall1"
    /\ \E fb \in Feedbacks :
         /\ response' = [bound |-> TRUE, parts |-> <<>>, prompt_feedback |-> fb]
         /\ diagnostics' = Append(diagnostics,
               [kind |-> IF fb # "" THEN "prompt_feedback" ELSE "none",
                feedback |-> fb, fresh |-> TRUE])
    /\ fresh' = TRUE
    /\ modelCalls' = Settle(modelCalls, "unusable")
    /\ output' = Append(output, ModelApology)
    /\ pc' = "AwaitingInput"
    /\ UNCHANGED <<exitCause, events, mcp_session, toolVars, user_query,
                   tool_name, tool_args, tool_call_result, result_content_str,
                   toolOutcome, toolCalls, unanswered, transVars, serverVars>>

\* client.py:160  response.parts[0] if response.parts else None
FirstPart(parts) == IF parts # <<>> THEN parts[1] ELSE EmptyPart

\* the names of the tools list_tools returned
EnumeratedNames == { available_mcp_tools[k].name : k \in DOMAIN available_mcp_tools }

\* the requested name looked up among the enumerated tools before the dispatch
ModelCall1Returns_ValidatesName ==
    /\ pc = "ModelCall1"
    /\ \E r \in Responses, fb \in Feedbacks :
         LET response_part == FirstPart(r)
         IN  /\ response' = [bound |-> TRUE, parts |-> r, prompt_feedback |-> fb]
             /\ unanswered' = CallsIn(r)
             /\ modelCalls' = Settle(modelCalls, "returned")
             /\ IF response_part.has_call
                  THEN /\ tool_name' = response_part.name
                       /\ tool_args' = response_part.args
                       /\ IF mcp_session # "None" /\ response_part.name \in EnumeratedNames
                            THEN /\ toolCalls' = Append(toolCalls,
                                        [name |-> response_part.name, args |-> response_part.args])
                                 /\ toolOutcome' = "pending"
                                 /\ output' = output
                                 /\ pc' = "ToolDispatch"
                            ELSE /\ output' = Append(output, NoSessionApology)
                                 /\ pc' = "AwaitingInput"
                                 /\ UNCHANGED <<toolCalls, toolOutcome>>
                  ELSE /\ output' = Append(output,
                                      IF response_part.text # ""
                                        THEN LLMText(response_part.text)
                                        ELSE EmptyResponse)
                       /\ pc' = "AwaitingInput"
                       /\ UNCHANGED <<tool_name, tool_args, toolCalls, toolOutcome>>
    /\ fresh' = TRUE
    /\ UNCHANGED diagnostics
    /\ UNCHANGED <<exitCause, events, mcp_session, toolVars, user_query,
                   tool_call_result, result_content_str, transVars, serverVars>>

\* client.py:153-220  the first model call returns; the response is
\* interpreted up to the next await (call_tool) or to the end of the turn
ModelCall1Returns ==
    /\ pc = "ModelCall1"
    /\ \E r \in Responses, fb \in Feedbacks :
         LET response_part == FirstPart(r)
         IN  /\ response' = [bound |-> TRUE, parts |-> r, prompt_feedback |-> fb]
             /\ unanswered' = CallsIn(r)
             /\ modelCalls' = Settle(modelCalls, "returned")
             /\ IF response_part.has_call
                  THEN /\ tool_name' = response_part.name
                       /\ tool_args' = response_part.args
                       /\ IF mcp_session # "None"
                            THEN /\ toolCalls' = Append(toolCalls,
                                        [name |-> response_part.name, args |-> response_part.args])
                                 /\ toolOutcome' = "pending"
                                 /\ output' = output
                                 /\ pc' = "ToolDispatch"
                            ELSE /\ output' = Append(output, NoSessionApology)
                                 /\ pc' = "AwaitingInput"
                                 /\ UNCHANGED <<toolCalls, toolOutcome>>
                  ELSE /\ output' = Append(output,
                                      IF response_part.text # ""
                                        THEN LLMText(response_part.text)
                                        ELSE EmptyResponse)
                       /\ pc' = "AwaitingInput"
                       /\ UNCHANGED <<tool_name, tool_args, toolCalls, toolOutcome>>
    /\ fresh' = TRUE
    /\ UNCHANGED diagnostics
    /\ UNCHANGED <<exitCause, events, mcp_session, toolVars, user_query,
                   tool_call_result, result_content_str, transVars, serverVars>>

\* call_tool raising, the exception swallowed and the default payload sent on
ToolDispatchRaises_SendsAnyway ==
    /\ pc = "ToolDispatch"
    /\ toolOutcome' = "raised"
    /\ modelCalls' = Append(modelCalls,
           FunctionResponse(tool_name, NoParsableContent, gemini_tools_list))
    /\ pc' = "ModelCall2"
    /\ unanswered' = unanswered \ {tool_name}
    /\ UNCHANGED <<diagnostics, fresh>>
    /\ UNCHANGED <<exitCause, events, mcp_session, toolVars, user_query, response,
                   tool_name, tool_args, tool_call_result, result_content_str,
                   toolCalls, output, transVars, serverVars>>

\* client.py:173, 209-211  call_tool raises: apology, end of the turn
ToolDispatchRaises ==
    /\ pc = "ToolDispatch"
    /\ toolOutcome' = "raised"
    /\ output' = Append(output, ToolApology)
    /\ pc' = "AwaitingInput"
    /\ UNCHANGED <<diagnostics, fresh, unanswered>>
    /\ UNCHANGED <<exitCause, events, mcp_session, toolVars, user_query, response,
                   tool_name, tool_args, tool_call_result, result_content_str,
                   modelCalls, toolCalls, transVars, serverVars>>

\* client.py:173-202  call_tool returns a result (error flag set or not):
\* it is serialized and sent back with the second send_message_async
ToolDispatchReturns ==
    /\ pc = "ToolDispatch"
    /\ \E res \in ToolResults :
         /\ tool_call_result' = res
         /\ result_content_str' = SerializeResult(res)
         /\ modelCalls' = Append(modelCalls,
                FunctionResponse(tool_name, SerializeResult(res), gemini_tools_list))
    /\ toolOutcome' = "returned"
    /\ pc' = "ModelCall2"
    /\ unanswered' = unanswered \ {tool_name}
    /\ UNCHANGED <<diagnostics, fresh>>
    /\ UNCHANGED <<exitCause, events, mcp_session, toolVars, user_query, response,
                   tool_name, tool_args, toolCalls, output, transVars, serverVars>>

\* client.py:199-202, 209-211  the second model call raises inside the
\* tool try: the tool apology is emitted
ModelCall2Raises ==
    /\ pc = "ModelCall2"
    /\ modelCalls' = Settle(modelCalls, "raised")
    /\ output' = Append(output, ToolApology)
    /\ pc' = "AwaitingInput"
    /\ UNCHANGED <<diagnostics, fresh, unanswered>>
    /\ UNCHANGED <<exitCause, events, mcp_session, toolVars, user_query, response,
                   tool_name, tool_args, tool_call_result, result_content_str,
                   toolOutcome, toolCalls, transVars, serverVars>>

\* the second response handled like the first: a function call in it is dispatched
ModelCall2Returns_Redispatch ==
    /\ pc = "ModelCall2"
    /\ \E r \in Responses, fb \in Feedbacks :
         /\ response' = [bound |-> TRUE, parts |-> r, prompt_feedback |-> fb]
         /\ unanswered' = CallsIn(r)
         /\ IF FirstPart(r).has_call
              THEN /\ toolCalls' = Append(toolCalls,
                         [name |-> FirstPart(r).name, args |-> FirstPart(r).args])
                   /\ output' = output
                   /\ pc' = "ToolDispatch"
              ELSE /\ output' = Append(output,
                                  IF r # <<>> /\ r[1].text # ""
                                    THEN LLMText(r[1].text) ELSE NoFinalText)
                   /\ toolCalls' = toolCalls
                   /\ pc' = "AwaitingInput"
    /\ modelCalls' = Settle(modelCalls, "returned")
    /\ fresh' = TRUE
    /\ UNCHANGED diagnostics
    /\ UNCHANGED <<exitCause, events, mcp_session, toolVars, user_query,
                   tool_name, tool_args, tool_call_result, result_content_str,
                   toolOutcome, transVars, serverVars>>

\* the second response without text leaving the turn without any emission
ModelCall2Returns_SilentWithoutText ==
    /\ pc = "ModelCall2"
    /\ \E r \in Responses, fb \in Feedbacks :
         /\ response' = [bound |-> TRUE, parts |-> r, prompt_feedback |-> fb]
         /\ unanswered' = CallsIn(r)
         /\ output' = IF r # <<>> /\ r[1].text # ""
                        THEN Append(output, LLMText(r[1].text)) ELSE output
    /\ modelCalls' = Settle(modelCalls, "returned")
    /\ fresh' = TRUE
    /\ UNCHANGED diagnostics
    /\ pc' = "AwaitingInput"
    /\ UNCHANGED <<exitCause, events, mcp_session, toolVars, user_query,
                   tool_name, tool_args, tool_call_result, result_content_str,
                   toolOutcome, toolCalls, transVars, serverVars>>

\* client.py:199-207  the second model call returns: the first part's text
\* or the notice; a function call in it is not looked at
ModelCall2Returns ==
    /\ pc = "ModelCall2"
    /\ \E r \in Responses, fb \in Feedbacks :
         /\ response' = [bound |-> TRUE, parts |-> r, prompt_feedback |-> fb]
         /\ unanswered' = CallsIn(r)
         /\ output' = Append(output,
                        IF r # <<>> /\ r[1].text # ""
                          THEN LLMText(r[1].text) ELSE NoFinalText)
    /\ modelCalls' = Settle(modelCalls, "returned")
    /\ fresh' = TRUE
    /\ UNCHANGED diagnostics
    /\ pc' = "AwaitingInput"
    /\ UNCHANGED <<exitCause, events, mcp_session, toolVars, user_query,
                   tool_name, tool_args, tool_call_result, result_content_str,
                   toolOutcome, toolCalls, transVars, serverVars>>

(* ------------------------------ shutdown ------------------------------- *)
\* client.py:98  ClientSession.__aexit__, the inner 'async with'
ReleaseSession ==
    /\ pc = "ReleaseSession"
    /\ events' = Append(events, "release_session")
    /\ pc' = "ReleaseTransport"
    /\ UNCHANGED <<exitCause, mcp_session, toolVars, turnVars, transVars, serverVars>>

\* client.py:94  stdio_client.__aexit__, the outer 'async with'; after it
\* a break falls through to 'finally', an exception goes to the handlers
ReleaseTransport ==
    /\ pc = "ReleaseTransport"
    /\ events' = Append(events, "release_transport")
    /\ pc' = IF exitCause = "quit" THEN "Finally" ELSE "Handler"
    /\ UNCHANGED <<exitCause, mcp_session, toolVars, turnVars, transVars, serverVars>>

\* client.py:237-244  the except clauses of the outer try report the error
Handler ==
    /\ pc = "Handler"
    /\ events' = Append(events, "error_reported")
    /\ pc' = "Finally"
    /\ UNCHANGED <<exitCause, mcp_session, toolVars, turnVars, transVars, serverVars>>

\* client.py:245-246  finally: "[Client] Exiting."
Finally ==
    /\ pc = "Finally"
    /\ events' = Append(events, "exiting")
    /\ pc' = "Done"
    /\ UNCHANGED <<exitCause, mcp_session, toolVars, turnVars, transVars, serverVars>>

Next ==
    \/ ConnectOk \/ ConnectFails \/ OpenSession
    \/ InitializeOk \/ InitializeFails
    \/ ListToolsOk \/ ListToolsFails
    \/ ReadQuery \/ ReadEmpty \/ ReadQuit \/ ReadFails
    \/ ModelCall1Raises \/ ModelCall1Returns \/ ModelCall1Unusable
    \/ ToolDispatchRaises \/ ToolDispatchReturns
    \/ ModelCall2Raises \/ ModelCall2Returns
    \/ ReleaseSession \/ ReleaseTransport \/ Handler \/ Finally

Spec == Init /\ [][Next]_vars

(* --------------------- translator specification ------------------------ *)
InitTranslate ==
    /\ InitMain
    /\ mcp_tool \in Descriptors
    /\ translated = <<>>
    /\ InitServerIdle

\* client.py:124  one application of mcp_tool_to_gemini_function
Translate ==
    /\ translated = <<>>
    /\ translated' = << mcp_tool_to_gemini_function(mcp_tool) >>
    /\ UNCHANGED <<mcp_tool, mainVars, serverVars>>

NextTranslate == Translate

SpecTranslate == InitTranslate /\ [][NextTranslate]_vars

\* client.py:153, 173, 199  each await is on one outstanding call; the
\* orchestrator resumes when that call returns or raises
FairSpec ==
    /\ Spec
    /\ WF_vars(ModelCall1Raises \/ ModelCall1Returns \/ ModelCall1Unusable)
    /\ WF_vars(ToolDispatchRaises \/ ToolDispatchReturns)
    /\ WF_vars(ModelCall2Raises \/ ModelCall2Returns)

(* ------------------- the Tool Host's functions ------------------------- *)
\* longest text handed to the Tool Host's functions
MaxLen == 4

Terminators == {".", "?", "!"}      \* server.py:45  the class [.?!]
Whitespace == {" ", "\n"}           \* what str.split() and str.strip() treat as blank
Chars == {"a"} \cup Terminators \cup Whitespace

Texts == SeqsUpTo(Chars, MaxLen)

\* server.py:45  re.split(r'[.?!]+', text): the pieces between the matches,
\* a match being a maximal run of terminators; a match at either end of
\* the text leaves an empty piece there
RECURSIVE ReSplitFrom(_, _, _, _)
ReSplitFrom(t, i, cur, acc) ==
    IF i > Len(t) THEN Append(acc, cur)
    ELSE IF t[i] \in Terminators
      THEN IF i < Len(t) /\ t[i + 1] \in Terminators
             THEN ReSplitFrom(t, i + 1, cur, acc)
             ELSE ReSplitFrom(t, i + 1, <<>>, Append(acc, cur))
      ELSE ReSplitFrom(t, i + 1, Append(cur, t[i]), acc)

ReSplit(t) == ReSplitFrom(t, 1, <<>>, <<>>)

\* server.py:47  s.strip(): leading and trailing blanks removed
RECURSIVE LStrip(_)
LStrip(s) == IF s # <<>> /\ s[1] \in Whitespace THEN LStrip(Tail(s)) ELSE s

RECURSIVE RStrip(_)
RStrip(s) ==
    IF s # <<>> /\ s[Len(s)] \in Whitespace THEN RStrip(SubSeq(s, 1, Len(s) - 1)) ELSE s

Strip(s) == RStrip(LStrip(s))

\* the count taken over every non-empty piece, without strip()
CountSentences_NoStrip(t) ==
    LET sentences == ReSplit(t)
    IN  Cardinality({ k \in DOMAIN sentences : sentences[k] # <<>> })

\* server.py:45-50  count_sentences
CountSentences(t) ==
    LET sentences == ReSplit(t)
    IN  Cardinality({ k \in DOMAIN sentences : Strip(sentences[k]) # <<>> })

\* server.py:20  text.split(): the maximal runs of non-blank characters
RECURSIVE SplitFrom(_, _, _, _)
SplitFrom(t, i, cur, acc) ==
    IF i > Len(t) THEN (IF cur # <<>> THEN Append(acc, cur) ELSE acc)
    ELSE IF t[i] \in Whitespace
      THEN SplitFrom(t, i + 1, <<>>, IF cur # <<>> THEN Append(acc, cur) ELSE acc)
      ELSE SplitFrom(t, i + 1, Append(cur, t[i]), acc)

Split(t) == SplitFrom(t, 1, <<>>, <<>>)

\* text.split(" "): a piece between every two single blanks, empty ones kept
RECURSIVE SplitOnEachFrom(_, _, _, _)
SplitOnEachFrom(t, i, cur, acc) ==
    IF i > Len(t) THEN Append(acc, cur)
    ELSE IF t[i] \in Whitespace
      THEN SplitOnEachFrom(t, i + 1, <<>>, Append(acc, cur))
      ELSE SplitOnEachFrom(t, i + 1, Append(cur, t[i]), acc)

AnalyzeText_SplitOnEach(t) ==
    [word_count |-> Len(SplitOnEachFrom(t, 1, <<>>, <<>>)), char_count |-> Len(t)]

\* server.py:20-31  analyze_text
AnalyzeText(t) ==
    [word_count |-> Len(Split(t)), char_count |-> Len(t)]

InitServer ==
    /\ InitMain
    /\ mcp_tool = count_sentences
    /\ translated = <<>>
    /\ text \in Texts
    /\ analysis_result = <<>>
    /\ sentence_count = <<>>

\* server.py:12-31  one invocation of analyze_text
CallAnalyzeText ==
    /\ analysis_result = <<>>
    /\ analysis_result' = << AnalyzeText(text) >>
    /\ UNCHANGED <<text, sentence_count, mainVars, transVars>>

\* server.py:35-50  one invocation of count_sentences
CallCountSentences ==
    /\ sentence_count = <<>>
    /\ sentence_count' = << CountSentences(text) >>
    /\ UNCHANGED <<text, analysis_result, mainVars, transVars>>

NextServer == CallAnalyzeText \/ CallCountSentences

SpecServer == InitServer /\ [][NextServer]_vars

(* ============================== claims ================================= *)
TurnPcs == {"ModelCall1", "ToolDispatch", "ModelCall2"}
LoopPcs == TurnPcs \cup {"AwaitingInput"}

Range(f) == { f[i] : i \in DOMAIN f }

ToolFailed ==
    \/ toolOutcome = "raised"
    \/ toolOutcome = "returned" /\ tool_call_result.isError

\* C1 (as stated): whenever the tool invocation fails, by an error flag on
\* the returned result or by an exception of the call, the turn ends with
\* the apology and no second model call is made in it; a second model call
\* is made only after a successful invocation.
C1_FailureSkipsModelCall2 ==
    /\ ToolFailed => /\ Len(modelCalls) = 1
                     /\ pc \notin TurnPcs
                     /\ output = << ToolApology >>
    /\ (Len(modelCalls) = 2 \/ pc = "ModelCall2") =>
           toolOutcome = "returned" /\ ~tool_call_result.isError

\* C1 (amended): when call_tool raises, the turn ends with the apology and
\* no second model call is made; when call_tool returns a result, with the
\* error flag set or not, the second model call is made with the serialized
\* result; the second model call is made only after call_tool returned.
C1_RaiseSkipsModelCall2 ==
    /\ toolOutcome = "raised" => /\ Len(modelCalls) = 1
                                 /\ pc \notin TurnPcs
                                 /\ output = << ToolApology >>
    /\ toolOutcome = "returned" =>
           /\ Len(modelCalls) = 2
           /\ modelCalls[2].kind = "function_response"
           /\ modelCalls[2].name = tool_name
           /\ modelCalls[2].content = result_content_str
    /\ (Len(modelCalls) = 2 \/ pc = "ModelCall2") => toolOutcome = "returned"

C1_Witness ==
    /\ toolOutcome = "raised"
    /\ pc = "AwaitingInput"
    /\ output = << ToolApology >>

\* C2 (as stated): no step taken inside a turn leaves the loop (the turn
\* continues or the orchestrator is back in AwaitingInput), and the session
\* is left only by the quit command or a connection/transport error.
C2_OnlyQuitOrTransportEnds ==
    [][ /\ pc \in TurnPcs => pc' \in LoopPcs
        /\ exitCause' # exitCause =>
               exitCause' \in {"quit", "connect_error", "init_error"} ]_vars

\* C2 (amended): no step taken inside a turn leaves the loop, and the
\* session is left only by the quit command, a connection/transport error,
\* or an exception raised while the input line is read.
C2_TurnFailuresStayInLoop ==
    [][ /\ pc \in TurnPcs => pc' \in LoopPcs
        /\ exitCause' # exitCause =>
               exitCause' \in {"quit", "connect_error", "init_error", "input_error"} ]_vars

C2_Witness ==
    /\ pc = "AwaitingInput"
    /\ Len(modelCalls) = 2
    /\ modelCalls[2].result = "raised"
    /\ exitCause = "none"

\* C3: in a turn there is at most one tool invocation and at most two model
\* calls, a call that raised is followed by no further call, and a second
\* response that asks for a function call ends the turn with one emission
\* and no second dispatch.
C3_SingleRoundTrip ==
    /\ Len(toolCalls) <= 1
    /\ Len(modelCalls) <= 2
    /\ \A i \in DOMAIN modelCalls :
           i < Len(modelCalls) => modelCalls[i].result = "returned"
    /\ (modelCalls # <<>> /\ modelCalls[1].result = "raised") => toolCalls = <<>>
    /\ toolOutcome = "raised" => Len(modelCalls) = 1
    /\ (/\ Len(modelCalls) = 2
        /\ modelCalls[2].result = "returned"
        /\ FirstPart(response.parts).has_call)
         => /\ pc \notin TurnPcs
            /\ Len(toolCalls) = 1
            /\ output = << NoFinalText >>

C3_Witness ==
    /\ Len(modelCalls) = 2
    /\ modelCalls[2].result = "returned"
    /\ FirstPart(response.parts).has_call
    /\ pc = "AwaitingInput"

ContainsCall(parts) == \E i \in DOMAIN parts : parts[i].has_call
ContainsText(parts) == \E i \in DOMAIN parts : parts[i].text # ""

\* C4: after the first model call returned, a response that contains a
\* function-call request leads to the tool dispatch; otherwise a response
\* that contains text has its text emitted; otherwise the notice about an
\* empty response is emitted.
C4_ResponseRouting ==
    (Len(modelCalls) = 1 /\ modelCalls[1].result = "returned") =>
        IF ContainsCall(response.parts)
          THEN Len(toolCalls) = 1
          ELSE /\ toolCalls = <<>>
               /\ Len(output) = 1
               /\ IF ContainsText(response.parts)
                    THEN output[1].kind = "text"
                    ELSE output[1] = EmptyResponse

\* C5 (as stated): whenever the returned tool result carries the error
\* flag, the serialized payload is the sentinel, for every content shape.
C5_FailedYieldsSentinel ==
    (toolOutcome = "returned" /\ tool_call_result.isError) =>
        result_content_str = ServerFailed

\* C5 (amended): when the returned tool result carries the error flag, the
\* payload is the sentinel if the content is empty; with a text first item
\* it is that text (re-indented if it is JSON), and with a non-text first
\* item it is the "no parsable content" message, as for a result without
\* the flag.
C5_SentinelOnEmptyContent ==
    (toolOutcome = "returned" /\ tool_call_result.isError) =>
        LET c == tool_call_result.content
        IN  /\ c = <<>> => result_content_str = ServerFailed
            /\ (c # <<>> /\ c[1].type = "text") =>
                   result_content_str =
                       (IF c[1].text = JsonText THEN JsonPretty ELSE c[1].text)
            /\ (c # <<>> /\ c[1].type # "text") =>
                   result_content_str = NoParsableContent
            /\ modelCalls[2].content = result_content_str

C5_Witness ==
    /\ toolOutcome = "returned"
    /\ tool_call_result.isError
    /\ tool_call_result.content = <<>>
    /\ result_content_str = ServerFailed
    /\ pc = "ModelCall2"

\* C6: with an empty tool set (none returned, or enumeration failed) every
\* model call of the turn is sent without a tools argument, never with an
\* empty list; with a non-empty tool set every model call carries one
\* declaration per enumerated tool.
C6_DeclarationsOmittedWhenEmpty ==
    \A i \in DOMAIN modelCalls :
        LET arg == modelCalls[i].tools
        IN  IF available_mcp_tools = <<>>
              THEN ~arg.present
              ELSE /\ arg.present
                   /\ Len(arg.tools) = 1
                   /\ LET decls == arg.tools[1].function_declarations
                      IN  /\ Len(decls) = Len(available_mcp_tools)
                          /\ \A k \in DOMAIN decls :
                                 decls[k].name = available_mcp_tools[k].name

C6_Witness ==
    /\ available_mcp_tools = <<>>
    /\ Len(modelCalls) = 2
    /\ ~modelCalls[1].tools.present
    /\ ~modelCalls[2].tools.present

\* C7: when list_tools raises, the error is reported, the tool set stays
\* empty and the next position is the interactive loop; enumeration is
\* requested at most once, and exactly once before the loop is entered.
C7_EnumerationFailureDegrades ==
    /\ [](enumFailed => /\ available_mcp_tools = <<>>
                        /\ gemini_tools_list = <<>>
                        /\ "error_listing_tools" \in Range(events))
    /\ [](listToolsCalls <= 1 /\ (pc \in LoopPcs => listToolsCalls = 1))
    /\ [][pc = "ListTools" => pc' = "AwaitingInput" /\ exitCause' = "none"]_vars

C7_Witness ==
    /\ enumFailed
    /\ pc = "ModelCall1"
    /\ listToolsCalls = 1

Count(e) == Cardinality({ i \in DOMAIN events : events[i] = e })
Before(a, b) ==
    \A i, j \in DOMAIN events : (events[i] = a /\ events[j] = b) => i < j

\* C8: the transport and the session handle are each acquired at most once
\* and held exactly once throughout the loop; when the process reports that
\* it is exiting, whatever was acquired has been released, the session
\* handle before the transport, both before the report; every way out of
\* the loop and a failed initialization release both.
C8_ResourcesReleased ==
    /\ Count("acquire_transport") <= 1
    /\ Count("acquire_session") <= 1
    /\ Count("release_transport") <= Count("acquire_transport")
    /\ Count("release_session") <= Count("acquire_session")
    /\ pc \in LoopPcs => /\ Count("acquire_transport") = 1
                         /\ Count("acquire_session") = 1
                         /\ Count("release_transport") = 0
                         /\ Count("release_session") = 0
    /\ Count("exiting") >= 1 =>
           /\ Count("release_transport") = Count("acquire_transport")
           /\ Count("release_session") = Count("acquire_session")
           /\ Before("release_session", "release_transport")
           /\ Before("release_session", "exiting")
           /\ Before("release_transport", "exiting")
    /\ (Count("exiting") >= 1 /\ exitCause \in {"quit", "input_error", "init_error"}) =>
           /\ Count("release_session") = 1
           /\ Count("release_transport") = 1

C8_Witness ==
    /\ pc = "Done"
    /\ exitCause = "input_error"
    /\ Count("release_session") = 1
    /\ Count("release_transport") = 1

\* the fixed lookup of the schema translator's documentation
TypeTable ==
    [t \in KnownTypes |->
        CASE t = "number" -> "NUMBER" [] t = "integer" -> "INTEGER"
          [] t = "boolean" -> "BOOLEAN" [] t = "string" -> "STRING"
          [] t = "array" -> "ARRAY" [] t = "object" -> "OBJECT"]

\* C9: for every descriptor the translator returns a declaration with the
\* descriptor's name whose parameters are the schema's declared parameters,
\* each with the type of the fixed lookup (STRING for a missing or unmapped
\* type) and its description (empty if missing); a missing required-list
\* gives the empty list.
C9_TranslationTotal ==
    translated # <<>> =>
        LET d == translated[1]
            s == mcp_tool.inputSchema
            declared == IF mcp_tool.hasSchema /\ s.hasProperties
                          THEN DOMAIN s.properties ELSE {}
        IN  /\ d.name = mcp_tool.name
            /\ d.parameters.type = "OBJECT"
            /\ DOMAIN d.parameters.properties = declared
            /\ \A p \in declared :
                   /\ d.parameters.properties[p].type =
                          (IF s.properties[p].hasType /\ s.properties[p].type \in KnownTypes
                             THEN TypeTable[s.properties[p].type] ELSE "STRING")
                   /\ d.parameters.properties[p].description =
                          (IF s.properties[p].hasDescription
                             THEN s.properties[p].description ELSE "")
            /\ ~(mcp_tool.hasSchema /\ s.hasRequired) => d.parameters.required = <<>>

C9_Witness ==
    /\ translated # <<>>
    /\ mcp_tool.hasSchema
    /\ mcp_tool.inputSchema.hasProperties
    /\ ~mcp_tool.inputSchema.hasRequired
    /\ DOMAIN mcp_tool.inputSchema.properties = {"text", "limit"}
    /\ mcp_tool.inputSchema.properties["text"].type = "null"
    /\ ~mcp_tool.inputSchema.properties["text"].hasDescription
    /\ ~mcp_tool.inputSchema.properties["limit"].hasType
    /\ translated[1].parameters.properties["text"].type = "STRING"

\* C10: for every descriptor whose input schema lists required parameter
\* names, the declaration's required list holds, as a set, exactly those
\* names, whatever else the schema contains.
C10_RequiredCopied ==
    (translated # <<>> /\ mcp_tool.hasSchema /\ mcp_tool.inputSchema.hasRequired) =>
        Range(translated[1].parameters.required) = Range(mcp_tool.inputSchema.required)

\* the segments of a text: a segment starts at a non-terminator that is the
\* first character or follows a terminator, and runs up to the next terminator
SegmentStarts(t) ==
    { i \in DOMAIN t : t[i] \notin Terminators /\ (i = 1 \/ t[i - 1] \in Terminators) }

SegmentHasWord(t, i) ==
    \E j \in i..Len(t) :
        /\ t[j] \notin Whitespace
        /\ \A k \in i..j : t[k] \notin Terminators

\* C11: count_sentences(text) is the number of segments between maximal
\* runs of terminators that hold a non-blank character; a text of
\* terminators only gives 0, a non-blank text without terminator gives 1.
C11_SentenceCount ==
    sentence_count # <<>> =>
        /\ sentence_count[1] =
               Cardinality({ i \in SegmentStarts(text) : SegmentHasWord(text, i) })
        /\ (text # <<>> /\ \A i \in DOMAIN text : text[i] \in Terminators) =>
               sentence_count[1] = 0
        /\ (/\ \A i \in DOMAIN text : text[i] \notin Terminators
            /\ \E i \in DOMAIN text : text[i] \notin Whitespace) =>
               sentence_count[1] = 1

C11_Witness ==
    /\ sentence_count = << 2 >>
    /\ text = << "a", ".", " ", "a" >>

\* C12: analyze_text(text) returns as word_count the number of maximal runs
\* of non-blank characters (0 for the empty text) and as char_count the
\* length of the text, blanks included.
C12_WordAndCharCount ==
    analysis_result # <<>> =>
        /\ analysis_result[1].word_count =
               Cardinality({ i \in DOMAIN text :
                               /\ text[i] \notin Whitespace
                               /\ (i = 1 \/ text[i - 1] \in Whitespace) })
        /\ analysis_result[1].char_count = Len(text)
        /\ text = <<>> => analysis_result[1] = [word_count |-> 0, char_count |-> 0]

C12_Witness ==
    /\ analysis_result = << [word_count |-> 2, char_count |-> 4] >>
    /\ text = << "a", " ", " ", "a" >>

TurnOver == modelCalls # <<>> /\ pc \notin TurnPcs

\* C13: while a turn is open nothing has been emitted yet; once it is over
\* exactly one user-facing outcome (model text, notice or apology) has been
\* emitted; the step that ends a turn emits it and leads to AwaitingInput;
\* and, every outstanding call returning or raising, a turn that reached
\* ModelCall1 is followed by AwaitingInput.
C13_TurnEndsInOneRespond ==
    /\ [](pc \in TurnPcs => output = <<>>)
    /\ [](TurnOver => /\ Len(output) = 1
                      /\ output[1].kind \in {"text", "notice", "apology"})
    /\ [][(pc \in TurnPcs /\ pc' \notin TurnPcs) =>
              (pc' = "AwaitingInput" /\ Len(output') = 1)]_vars
    /\ (pc = "ModelCall1") ~> (pc = "AwaitingInput")

C13_Witness ==
    /\ pc = "AwaitingInput"
    /\ Len(modelCalls) = 2
    /\ modelCalls[2].result = "returned"
    /\ output = << NoFinalText >>

C15_CallsAnsweredBeforeUserText ==
    pc = "ModelCall1" => unanswered = {}

\* the quit command in any letter case
IsQuitCommand(line) ==
    /\ Len(line) = 4
    /\ line[1] \in {"q", "Q"}
    /\ line[2] \in {"u", "U"}
    /\ line[3] \in {"i", "I"}
    /\ line[4] \in {"t", "T"}

\* C16: a step that reads an empty line makes no model call and no tool
\* call, leaves the conversation, the held response and the tool
\* declarations as they were and stays in AwaitingInput; a step that reads
\* the quit command in any letter case does the same and leaves the loop;
\* any other line starts a turn with one model call.
C16_EmptyAndQuitAreInert ==
    [][(pc = "AwaitingInput" /\ exitCause' # "input_error") =>
          LET line == user_query'
              inert == /\ modelCalls' = <<>>
                       /\ toolCalls' = <<>>
                       /\ unanswered' = unanswered
                       /\ response' = response
                       /\ gemini_tools_list' = gemini_tools_list
                       /\ available_mcp_tools' = available_mcp_tools
          IN  IF line = <<>>
                THEN inert /\ pc' = "AwaitingInput" /\ exitCause' = "none"
              ELSE IF IsQuitCommand(line)
                THEN inert /\ pc' = "ReleaseSession" /\ exitCause' = "quit"
                ELSE pc' = "ModelCall1" /\ Len(modelCalls') = 1]_vars

C16_Witness ==
    /\ pc = "ReleaseSession"
    /\ exitCause = "quit"
    /\ user_query = << "Q", "U", "I", "T" >>
    /\ response.bound
    /\ modelCalls = <<>>
    /\ toolCalls = <<>>

\* C17: prompt feedback reported by the turn's error handler comes from a
\* response received during that turn, and a handler that finds no
\* response at all reports that and lets the turn end with the apology.
C17_FeedbackFromSameTurn ==
    \A i \in DOMAIN diagnostics :
        /\ diagnostics[i].kind = "prompt_feedback" => diagnostics[i].fresh
        /\ diagnostics[i].kind = "error_accessing_feedback" =>
               (pc \notin TurnPcs /\ output = << ModelApology >>)

====
